---------------------------- MODULE Spec2Model ----------------------------
(***************************************************************************)
(* A model of arxindle.py: the identifier parser, the style-file rewriter  *)
(* (Pass A), the main-document rewriter (Pass B), the compiler driver and  *)
(* the CLI pipeline around them.                                           *)
(*                                                                         *)
(* Text is modelled in two granularities.  Identifier strings are          *)
(* sequences of one-character strings, because the identifier pattern can  *)
(* match in the middle of a run of digits.  TeX sources are sequences of   *)
(* lexemes (control words, braces, brackets, words, single whitespace      *)
(* characters); every pattern of the rewriter starts and ends on a lexeme  *)
(* boundary of the inputs enumerated here.                                 *)
(***************************************************************************)
EXTENDS Integers, Sequences, FiniteSets, TLC

VARIABLES
    \* ---- parse_arxiv_id exercised alone
    url_or_id,      \* the argument of parse_arxiv_id
    parse_result,   \* "pending", or [raised |-> BOOLEAN, id |-> characters]
    \* ---- Pass A exercised alone
    sty_orig,       \* style file content as extracted
    sty_prev,       \* content before the latest application of Pass A
    sty_content,    \* current content
    sty_passes,     \* number of applications so far
    \* ---- the CLI pipeline
    pc,             \* position of main()
    margin10,       \* args.margin in tenths of an inch
    landscape,      \* args.landscape
    arxiv_url,      \* args.url
    output,         \* output path as [stem, suffix]
    procLog,        \* external processes spawned, in order
    lastRc,         \* outcome of the latest spawn
    netLog,         \* HTTP requests issued, in order
    tmpExists,      \* the temporary directory exists on disk
    tmpCreated,     \* a temporary directory was created in this run
    files,          \* content of the working directory: name -> lexemes
    texfile,        \* stem of the selected main document, "" when none
    src,            \* process_tex's list of lines
    bibAtCheck,     \* what line 290 evaluated to, "unset" before
    outputWritten,  \* the output path has been written
    exc,            \* exception that ended the run, "none" otherwise
    failedIn,       \* function the exception was raised in
    exitCode,       \* process exit status, -1 while running
    traceback       \* the exception left main() uncaught

parseVars == <<url_or_id, parse_result>>
styVars   == <<sty_orig, sty_prev, sty_content, sty_passes>>
mainVars  == <<pc, margin10, landscape, arxiv_url, output, procLog, lastRc,
               netLog, tmpExists, tmpCreated, files, texfile, src, bibAtCheck,
               outputWritten, exc, failedIn, exitCode, traceback>>
vars      == <<parseVars, styVars, mainVars>>

----------------------------------------------------------------------------
(* Bounds *)

MaxYearDigits == 5     \* longest digit run before the dot
MaxNumDigits  == 6     \* longest digit run after the dot
MaxFrags      == 2     \* fragments concatenated into a style file
MaxTexFiles   == 2     \* .tex files in an extracted archive

----------------------------------------------------------------------------
(* Sequence helpers *)

StartsWithAt(s, i, lit) ==
    /\ i >= 1
    /\ i + Len(lit) - 1 <= Len(s)
    /\ SubSeq(s, i, i + Len(lit) - 1) = lit

IsSubstring(t, s) ==
    \E i \in 1..(Len(s) + 1) : StartsWithAt(s, i, t)

----------------------------------------------------------------------------
(* parse_arxiv_id, character level *)

Whitespace == {" ", "\n", "\t"}
DigitChars == <<"0", "1", "2", "3", "4", "5", "6", "7", "8", "9">>
IsDigit(c) == \E k \in 1..10 : DigitChars[k] = c

RECURSIVE LStrip(_)
LStrip(s) ==
    IF s = <<>> \/ Head(s) \notin Whitespace THEN s ELSE LStrip(Tail(s))

RECURSIVE RStrip(_)
RStrip(s) ==
    IF s = <<>> \/ s[Len(s)] \notin Whitespace THEN s
    ELSE RStrip(SubSeq(s, 1, Len(s) - 1))

Strip(s) == RStrip(LStrip(s))

LitHttp     == <<"h", "t", "t", "p">>
LitSlashes  == <<":", "/", "/">>
LitWww      == <<"w", "w", "w", ".">>
LitArxivOrg == <<"a", "r", "x", "i", "v", ".", "o", "r", "g", "/">>
LitAbs      == <<"a", "b", "s">>
LitPdf      == <<"p", "d", "f">>
LitEprint   == <<"e", "-", "p", "r", "i", "n", "t">>

\* Number of digits at s[i], s[i+1], ... up to max
RECURSIVE DigitsAt(_, _, _)
DigitsAt(s, i, max) ==
    IF max = 0 \/ i > Len(s) \/ ~IsDigit(s[i]) THEN 0
    ELSE 1 + DigitsAt(s, i + 1, max - 1)

\* (?: https?:// (?:www\.)? arxiv\.org/ (?:abs|pdf|e-print)/ ) at position i:
\* the position after the prefix, 0 when the prefix does not match there
UrlPrefixEnd(s, i) ==
    IF ~StartsWithAt(s, i, LitHttp) THEN 0
    ELSE LET a == IF StartsWithAt(s, i + 4, <<"s">>) THEN i + 5 ELSE i + 4
         IN IF ~StartsWithAt(s, a, LitSlashes) THEN 0
            ELSE LET b == a + 3
                     c == IF StartsWithAt(s, b, LitWww) THEN b + 4 ELSE b
                 IN IF ~StartsWithAt(s, c, LitArxivOrg) THEN 0
                    ELSE LET d == c + 10
                             e == IF StartsWithAt(s, d, LitAbs) THEN d + 3
                                  ELSE IF StartsWithAt(s, d, LitPdf) THEN d + 3
                                  ELSE IF StartsWithAt(s, d, LitEprint) THEN d + 7
                                  ELSE 0
                         IN IF e = 0 \/ ~StartsWithAt(s, e, <<"/">>) THEN 0
                            ELSE e + 1

\* (?P<id> \d{4} \. \d{4,5} (?:v\d{1,2})? ) at position i: length of the
\* match (greedy), 0 when the group does not match there
IdLenAtFiveOnly(s, i) ==
    IF DigitsAt(s, i, 4) < 4 \/ ~StartsWithAt(s, i + 4, <<".">>) THEN 0
    ELSE LET n == DigitsAt(s, i + 5, 5)
         IN IF n < 5 THEN 0
            ELSE LET j == i + 5 + n
                     v == IF StartsWithAt(s, j, <<"v">>)
                          THEN DigitsAt(s, j + 1, 2) ELSE 0
                 IN 5 + n + (IF v = 0 THEN 0 ELSE 1 + v)

IdLenAt(s, i) ==
    IF DigitsAt(s, i, 4) < 4 \/ ~StartsWithAt(s, i + 4, <<".">>) THEN 0
    ELSE LET n == DigitsAt(s, i + 5, 5)
         IN IF n < 4 THEN 0
            ELSE LET j == i + 5 + n
                     v == IF StartsWithAt(s, j, <<"v">>)
                          THEN DigitsAt(s, j + 1, 2) ELSE 0
                 IN 5 + n + (IF v = 0 THEN 0 ELSE 1 + v)

\* ARXIV_ID_PATTERN tried at position i: <<start of id, length of id>>,
\* <<0, 0>> when the pattern does not match at i.  The optional prefix is
\* tried first and given up when the identifier does not follow it.
IdMatch(start, len) == IF len > 0 THEN <<start, len>> ELSE <<0, 0>>

PatternWithPrefix(s, i, pe) ==
    IF pe > 0 /\ IdMatch(pe, IdLenAt(s, pe))[1] > 0
    THEN IdMatch(pe, IdLenAt(s, pe))
    ELSE IdMatch(i, IdLenAt(s, i))

ARXIV_ID_PATTERN(s, i) == PatternWithPrefix(s, i, UrlPrefixEnd(s, i))

\* re.search: the match at the leftmost position that has one
RECURSIVE SearchFrom(_, _)
SearchNext(s, i, m) == IF m[1] > 0 THEN m ELSE SearchFrom(s, i + 1)

SearchFrom(s, i) ==
    IF i > Len(s) THEN <<0, 0>> ELSE SearchNext(s, i, ARXIV_ID_PATTERN(s, i))

MatchGroupId(s, m) ==
    IF m[1] = 0 THEN [raised |-> TRUE, id |-> <<>>]
    ELSE [raised |-> FALSE, id |-> SubSeq(s, m[1], m[1] + m[2] - 1)]

SearchStripped(s) == MatchGroupId(s, SearchFrom(s, 1))

parse_arxiv_id(u) == SearchStripped(Strip(u))

----------------------------------------------------------------------------
(* Pattern matching over lexemes *)

\* first j >= i with s[j] = tok, 0 when there is none
RECURSIVE FirstIndexOf(_, _, _)
FirstIndexOf(s, i, tok) ==
    IF i > Len(s) THEN 0
    ELSE IF s[i] = tok THEN i
    ELSE FirstIndexOf(s, i + 1, tok)

\* \s* from position i: the first position not holding whitespace
RECURSIVE SkipWs(_, _)
SkipWs(s, i) ==
    IF i > Len(s) \/ s[i] \notin Whitespace THEN i ELSE SkipWs(s, i + 1)

At(s, i) == IF i >= 1 /\ i <= Len(s) THEN s[i] ELSE "<eof>"

GeometryArg == <<"{", "geometry", "}">>

\* \\kw(\[[^\]]*\])?\{geometry\}  (kw is \usepackage or \RequirePackage)
LoaderLenAt(s, i, kw) ==
    IF At(s, i) # kw THEN 0
    ELSE LET c == IF At(s, i + 1) = "[" THEN FirstIndexOf(s, i + 2, "]") ELSE 0
         IN IF c > 0 /\ StartsWithAt(s, c + 1, GeometryArg) THEN c + 3 - i + 1
            ELSE IF StartsWithAt(s, i + 1, GeometryArg) THEN 4
            ELSE 0

\* \\kw\s*\{[^}]*\}  (kw is \newgeometry or \geometry)
BraceCallLenAt(s, i, kw) ==
    IF At(s, i) # kw THEN 0
    ELSE LET j == SkipWs(s, i + 1)
             c == IF At(s, j) = "{" THEN FirstIndexOf(s, j + 1, "}") ELSE 0
         IN IF c > 0 THEN c - i + 1 ELSE 0

\* \\twocolumn(\s*\[[^\]]*\])?   the optional group is taken when it matches
TwocolumnLenAt(s, i) ==
    IF At(s, i) # "\\twocolumn" THEN 0
    ELSE LET j == SkipWs(s, i + 1)
             c == IF At(s, j) = "[" THEN FirstIndexOf(s, j + 1, "]") ELSE 0
         IN IF c > 0 THEN c - i + 1 ELSE 1

\* (\\@ifpackageloaded\{geometry\})
IfLoadedLenAt(s, i) ==
    IF At(s, i) = "\\@ifpackageloaded" /\ StartsWithAt(s, i + 1, GeometryArg)
    THEN 4 ELSE 0

\* lexemes in which the characters "geometry" occur, case ignored
ContainsGeometry(tok) ==
    tok \in {"geometry", "Geometry", "newgeometry", "\\geometry", "\\newgeometry"}

\* (\\PackageError\{[^}]*\}\{[^}]*geometry[^}]*\}\{[^}]*\}) with re.IGNORECASE
PackageErrorLenAtAny(s, i) ==
    IF At(s, i) \notin {"\\PackageError", "\\packageerror"} THEN 0
    ELSE LET c1 == IF At(s, i + 1) = "{" THEN FirstIndexOf(s, i + 2, "}") ELSE 0
             c2 == IF c1 > 0 /\ At(s, c1 + 1) = "{"
                   THEN FirstIndexOf(s, c1 + 2, "}") ELSE 0
             c3 == IF c2 > 0 /\ At(s, c2 + 1) = "{"
                   THEN FirstIndexOf(s, c2 + 2, "}") ELSE 0
         IN IF c3 > 0 THEN c3 - i + 1 ELSE 0

PackageErrorLenAt(s, i) ==
    IF At(s, i) \notin {"\\PackageError", "\\packageerror"} THEN 0
    ELSE LET c1 == IF At(s, i + 1) = "{" THEN FirstIndexOf(s, i + 2, "}") ELSE 0
             c2 == IF c1 > 0 /\ At(s, c1 + 1) = "{"
                   THEN FirstIndexOf(s, c1 + 2, "}") ELSE 0
             c3 == IF c2 > 0 /\ At(s, c2 + 1) = "{"
                   THEN FirstIndexOf(s, c2 + 2, "}") ELSE 0
         IN IF c3 > 0 /\ \E k \in (c1 + 2)..(c2 - 1) : ContainsGeometry(s[k])
            THEN c3 - i + 1 ELSE 0

\* (\\documentclass\s*\[)
ClassOptsLenAt(s, i) ==
    IF At(s, i) # "\\documentclass" THEN 0
    ELSE LET j == SkipWs(s, i + 1)
         IN IF At(s, j) = "[" THEN j - i + 1 ELSE 0

\* (\\documentclass)\s*(\{)
ClassNoOptsLenAt(s, i) ==
    IF At(s, i) # "\\documentclass" THEN 0
    ELSE LET j == SkipWs(s, i + 1)
         IN IF At(s, j) = "{" THEN j - i + 1 ELSE 0

\* lexemes matched by [.\d]+
NumberTokens == {"0.8", "1", ".5"}

\* \\includegraphics\[width=([.\d]+)\\(line|text)width\]
IncludegraphicsLenAt(s, i) ==
    IF /\ StartsWithAt(s, i, <<"\\includegraphics", "[", "width=">>)
       /\ At(s, i + 3) \in NumberTokens
       /\ At(s, i + 4) \in {"\\linewidth", "\\textwidth"}
       /\ At(s, i + 5) = "]"
    THEN 6 ELSE 0

GeometryDisabled    == <<"%", " ", "geometry", " ", "disabled by arxindle">>
NewgeometryDisabled == <<"%", " ", "newgeometry", " ", "disabled by arxindle">>

\* replace_twocolumn of Pass A: m.group(1)[1:-1] drops the first and the
\* last character of the group, whitespace before the bracket included
replace_twocolumn(g) ==
    IF g # <<>> THEN <<"\\onecolumn", " ">> \o SubSeq(g, 2, Len(g) - 1)
    ELSE <<"\\onecolumn">>

\* replace_twocolumn_tex of Pass B: m.group(1).strip()[1:-1]
replace_twocolumn_tex(g) ==
    IF g # <<>> THEN <<"\\onecolumn", " ">> \o SubSeq(Strip(g), 2, Len(Strip(g)) - 1)
    ELSE <<"\\onecolumn">>

MatchLen(p, s, i) ==
    CASE p = "usepackage"     -> LoaderLenAt(s, i, "\\usepackage")
      [] p = "newgeometry"    -> BraceCallLenAt(s, i, "\\newgeometry")
      [] p = "geometry"       -> BraceCallLenAt(s, i, "\\geometry")
      [] p = "requirepackage" -> LoaderLenAt(s, i, "\\RequirePackage")
      [] p = "twocolumn"      -> TwocolumnLenAt(s, i)
      [] p = "twocolumn_tex"  -> TwocolumnLenAt(s, i)
      [] p = "ifloaded"       -> IfLoadedLenAt(s, i)
      [] p = "packageerror"   -> PackageErrorLenAt(s, i)
      [] p = "class_opts"     -> ClassOptsLenAt(s, i)
      [] p = "class_noopts"   -> ClassNoOptsLenAt(s, i)
      [] p = "includegraphics" -> IncludegraphicsLenAt(s, i)

Replacement(p, m) ==
    CASE p = "usepackage"     -> GeometryDisabled
      [] p = "newgeometry"    -> NewgeometryDisabled
      [] p = "geometry"       -> GeometryDisabled
      [] p = "requirepackage" -> GeometryDisabled
      [] p = "twocolumn"      -> replace_twocolumn(Tail(m))
      [] p = "twocolumn_tex"  -> replace_twocolumn_tex(Tail(m))
      [] p = "ifloaded"       -> <<"%", " ">> \o m
      [] p = "packageerror"   -> <<"%", " ">> \o m
      [] p = "class_opts"     -> m \o <<"onecolumn", ",">>
      [] p = "class_noopts"   -> <<"\\documentclass", "[", "onecolumn", "]", "{">>
      [] p = "includegraphics" ->
            <<"\\includegraphics", "[", "width=", m[4], "\\textwidth", ",",
              "height=", m[4], "\\textheight", ",", "keepaspectratio", "]">>

\* re.sub: leftmost non-overlapping matches, replaced text is not rescanned
RECURSIVE ReSubFrom(_, _, _)
ReSubStep(p, s, i, n) ==
    IF n > 0
    THEN Replacement(p, SubSeq(s, i, i + n - 1)) \o ReSubFrom(p, s, i + n)
    ELSE <<s[i]>> \o ReSubFrom(p, s, i + 1)

ReSubFrom(p, s, i) ==
    IF i > Len(s) THEN <<>> ELSE ReSubStep(p, s, i, MatchLen(p, s, i))

ReSub(p, s) == ReSubFrom(p, s, 1)

\* the seven substitutions of lines 128-178, in the order of the code
PassA(s) ==
    ReSub("packageerror",
      ReSub("ifloaded",
        ReSub("twocolumn",
          ReSub("requirepackage",
            ReSub("geometry",
              ReSub("newgeometry",
                ReSub("usepackage", s)))))))

----------------------------------------------------------------------------
(* Pass B: the main document, lines 194-263 *)

\* str.split("\n")
RECURSIVE SplitLines(_)
SplitLines(s) ==
    LET k == FirstIndexOf(s, 1, "\n")
    IN IF k = 0 THEN <<s>>
       ELSE <<SubSeq(s, 1, k - 1)>> \o SplitLines(SubSeq(s, k + 1, Len(s)))

\* "\n".join
RECURSIVE JoinLines(_)
JoinLines(ls) ==
    IF ls = <<>> THEN <<>>
    ELSE IF Len(ls) = 1 THEN ls[1]
    ELSE ls[1] \o <<"\n">> \o JoinLines(Tail(ls))

\* the elements of s at the positions in K, in order
RECURSIVE KeepFrom(_, _, _)
KeepFrom(s, K, i) ==
    IF i > Len(s) THEN <<>>
    ELSE (IF i \in K THEN <<s[i]>> ELSE <<>>) \o KeepFrom(s, K, i + 1)

Keep(s, K) == KeepFrom(s, K, 1)

\* line 197: not line.startswith("%") and line.strip()
IsKeptLine(line) ==
    /\ At(line, 1) # "%"
    /\ Strip(line) # <<>>

FilterLines(lines) ==
    Keep(lines, {i \in 1..Len(lines) : IsKeptLine(lines[i])})

PointSizeWords == {"10pt", "11pt", "12pt"}
ColumnWords    == {"twocolumn", "onecolumn"}
PaperWords     == {"a4paper", "letterpaper"}

\* a control word whose name is one of the words loses the name: the word
\* boundary \b lies between the backslash and the name
StripWords(line, words) ==
    Keep([i \in 1..Len(line) |->
            IF \E w \in words : line[i] = "\\" \o w THEN "\\" ELSE line[i]],
         {i \in 1..Len(line) : line[i] \notin words})

\* line 203: (?<=\[),
DropLeadingCommas(c) ==
    Keep(c, {i \in 1..Len(c) : ~(c[i] = "," /\ At(c, i - 1) = "[")})

\* line 204: ,(?=[\],])
DropTrailingCommas(d) ==
    Keep(d, {i \in 1..Len(d) : ~(d[i] = "," /\ At(d, i + 1) \in {"]", ","})})

\* lines 200-204
StripClassOptions(line) ==
    DropTrailingCommas(
      DropLeadingCommas(
        StripWords(StripWords(StripWords(line, PointSizeWords), ColumnWords),
                   PaperWords)))

\* lines 207-211
AddOnecolumn(line) ==
    IF \E i \in 1..Len(line) : ClassOptsLenAt(line, i) > 0
    THEN ReSub("class_opts", line)
    ELSE ReSub("class_noopts", line)

\* lines 215-232, applied to one line
NeutralizeLine(line) ==
    ReSub("twocolumn_tex", ReSub("newgeometry", line))

BeginDocument == <<"\\begin", "{", "document", "}">>

\* line 235
begindocs(lines) ==
    {i \in 1..Len(lines) : StartsWithAt(lines[i], 1, BeginDocument)}

\* list.insert(k, x), k counted from 1
InsertAt(s, k, x) ==
    SubSeq(s, 1, k - 1) \o <<x>> \o SubSeq(s, k, Len(s))

\* lines 302-309: f"{width}in", f"{height}in", f"{margin}in"
Inches(n) == ToString(n) \o "in"
MarginInches(m10) ==
    (IF m10 < 0 THEN "-" ELSE "") \o
    ToString((IF m10 < 0 THEN -m10 ELSE m10) \div 10) \o "." \o
    ToString((IF m10 < 0 THEN -m10 ELSE m10) % 10) \o "in"

\* line 240, over the mapping built in convert
GeometrySettings(width, height, m10, isLandscape) ==
    <<"paperwidth=" \o Inches(IF isLandscape THEN height ELSE width), ",",
      "paperheight=" \o Inches(IF isLandscape THEN width ELSE height), ",",
      "margin=" \o MarginInches(m10)>>

GeometryLine(gs)  == <<"\\geometry", "{">> \o gs \o <<"}", "\n">>
IfLoadedLine ==
    <<"\\makeatletter", "\\@ifpackageloaded", "{", "geometry", "}", "{", "}",
      "{", "\\usepackage", "{", "geometry", "}", "}", "\\makeatother", "\n">>
TimesLine     == <<"\\usepackage", "{", "times", "}", "\n">>
PagestyleLine == <<"\\pagestyle", "{", "empty", "}", "\n">>
LscapeLine    == <<"\\usepackage", "{", "pdflscape", "}", "\n">>

InsertPreambleTimesLast(lines, k, isLandscape, gs) ==
    LET a == InsertAt(lines, k, GeometryLine(gs))
        b == InsertAt(a, k, IfLoadedLine)
        c == InsertAt(b, k, PagestyleLine)
        d == InsertAt(c, k, TimesLine)
    IN IF isLandscape THEN InsertAt(d, k, LscapeLine) ELSE d

\* lines 242-251: every insertion at the same index
InsertPreamble(lines, k, isLandscape, gs) ==
    LET a == InsertAt(lines, k, GeometryLine(gs))
        b == InsertAt(a, k, IfLoadedLine)
        c == InsertAt(b, k, TimesLine)
        d == InsertAt(c, k, PagestyleLine)
    IN IF isLandscape THEN InsertAt(d, k, LscapeLine) ELSE d

\* lines 254-259, applied to one line
ScaleImages(line) == ReSub("includegraphics", line)

\* lines 194-259 on the content of the selected file: the exception raised
\* ("none" when the lines are ready to be written) and the lines
ScaleAll(lines) == [i \in 1..Len(lines) |-> ScaleImages(lines[i])]

\* lines 234-259 on the lines s1 left by lines 194-232
RewriteFromMarker(s1, isLandscape, gs) ==
    IF Cardinality(begindocs(s1)) # 1 THEN [exc |-> "ValueError", src |-> s1]
    ELSE [exc |-> "none",
          src |-> ScaleAll(InsertPreamble(s1, CHOOSE i \in begindocs(s1) : TRUE,
                                          isLandscape, gs))]

\* lines 199-259 on the filtered lines s0; src[0] of no line is an IndexError
RewriteFiltered(s0, isLandscape, gs) ==
    IF s0 = <<>> THEN [exc |-> "IndexError", src |-> s0]
    ELSE RewriteFromMarker(
            [i \in 1..Len(s0) |->
                NeutralizeLine(IF i = 1 THEN AddOnecolumn(StripClassOptions(s0[1]))
                               ELSE s0[i])],
            isLandscape, gs)

RewriteMain(content, isLandscape, gs) ==
    RewriteFiltered(FilterLines(SplitLines(content)), isLandscape, gs)

----------------------------------------------------------------------------
(* Values of the variables of a part of the program that is not running *)

ParseIdle ==
    /\ url_or_id = <<>>
    /\ parse_result = [state |-> "idle", id |-> <<>>]

StyIdle ==
    /\ sty_orig = <<>>
    /\ sty_prev = <<>>
    /\ sty_content = <<>>
    /\ sty_passes = 0

EmptyDir == [n \in {} |-> <<>>]

MainIdle ==
    /\ pc = "idle"
    /\ margin10 = 2
    /\ landscape = FALSE
    /\ arxiv_url = <<>>
    /\ output = [stem |-> "", suffix |-> ""]
    /\ procLog = <<>>
    /\ lastRc = "none"
    /\ netLog = <<>>
    /\ tmpExists = FALSE
    /\ tmpCreated = FALSE
    /\ files = EmptyDir
    /\ texfile = ""
    /\ src = <<>>
    /\ bibAtCheck = "unset"
    /\ outputWritten = FALSE
    /\ exc = "none"
    /\ failedIn = "none"
    /\ exitCode = -1
    /\ traceback = FALSE

----------------------------------------------------------------------------
(* parse_arxiv_id applied to enumerated strings *)

\* "1234...": a run of n distinct-looking digits
DigitRun(n) == [k \in 1..n |-> DigitChars[(k % 10) + 1]]

UrlHttpsAbs  == LitHttp \o <<"s">> \o LitSlashes \o LitArxivOrg \o LitAbs \o <<"/">>
UrlHttpWwwPdf == LitHttp \o LitSlashes \o LitWww \o LitArxivOrg \o LitPdf \o <<"/">>
UrlHttpsEprint == LitHttp \o <<"s">> \o LitSlashes \o LitArxivOrg \o LitEprint \o <<"/">>
UrlNoScheme  == LitArxivOrg \o LitAbs \o <<"/">>
UrlOtherHost == LitHttp \o <<"s">> \o LitSlashes \o <<"e", "x", ".", "o", "r", "g", "/">>

\* the URL variants the docstring and the pattern list
UrlPrefixes == {UrlHttpsAbs, UrlHttpWwwPdf, UrlHttpsEprint}

InputPrefixes ==
    UrlPrefixes \cup {<<>>, <<" ">>, <<"x">>, <<"9">>, UrlNoScheme, UrlOtherHost}
InputSeparators == {<<".">>, <<>>, <<"-">>}
InputVersions   == {<<>>, <<"v", "2">>, <<"v", "1", "2">>, <<"v", "1", "2", "3">>, <<"v">>}
InputSuffixes   == {<<>>, <<" ">>, <<"x">>, <<".", "p", "d", "f">>}

ParseInputs ==
    {<<"a", "b", "c">>} \cup
    {pre \o DigitRun(y) \o sep \o DigitRun(n) \o ver \o post :
        pre \in InputPrefixes, y \in 2..MaxYearDigits, sep \in InputSeparators,
        n \in 2..MaxNumDigits, ver \in InputVersions, post \in InputSuffixes}

InitParse ==
    /\ url_or_id \in ParseInputs
    /\ parse_result = [state |-> "pending", id |-> <<>>]
    /\ StyIdle
    /\ MainIdle

\* lines 36-57
CallParse ==
    /\ parse_result.state = "pending"
    /\ parse_result' =
          [state |-> IF parse_arxiv_id(url_or_id).raised
                     THEN "ValueError" ELSE "returned",
           id    |-> parse_arxiv_id(url_or_id).id]
    /\ UNCHANGED <<url_or_id, styVars, mainVars>>

NextParse == CallParse

SpecParse == InitParse /\ [][NextParse]_vars

----------------------------------------------------------------------------
(* Pass A applied to enumerated style files *)

StyFragments ==
    { <<"\\usepackage", "{", "geometry", "}">>,
      <<"\\usepackage", "[", "margin=1in", "]", "{", "geometry", "}">>,
      <<"\\RequirePackage", "{", "geometry", "}">>,
      <<"\\newgeometry", "{", "margin=1in", "}">>,
      <<"\\geometry", " ", "{", "a4paper", "\n", "}">>,
      <<"\\twocolumn">>,
      <<"\\twocolumn", "[", "\\@maketitle", "]">>,
      <<"\\@ifpackageloaded", "{", "geometry", "}">>,
      <<"\\PackageError", "{", "sty", "}", "{", "no", " ", "geometry", "}", "{", "help", "}">>,
      <<"\\PackageError", "{", "sty", "}", "{", "bad", " ", "option", "}", "{", "help", "}">>,
      <<"\\usepackage", "{", "graphicx", "}">>,
      <<"\\onecolumn">>,
      <<"[">>,
      <<"]">>,
      <<"\n">> }

RECURSIVE FragmentSeqs(_)
FragmentSeqs(n) ==
    IF n = 0 THEN {<<>>}
    ELSE FragmentSeqs(n - 1) \cup
         {a \o f : a \in FragmentSeqs(n - 1), f \in StyFragments}

StyInputs == FragmentSeqs(MaxFrags)

InitSty ==
    /\ sty_orig \in StyInputs
    /\ sty_prev = sty_orig
    /\ sty_content = sty_orig
    /\ sty_passes = 0
    /\ ParseIdle
    /\ MainIdle

\* lines 125-179 on one style file: read_text, the substitutions, write_text
ProcessStyFile ==
    /\ sty_passes < 2
    /\ sty_prev' = sty_content
    /\ sty_content' = PassA(sty_content)
    /\ sty_passes' = sty_passes + 1
    /\ UNCHANGED <<sty_orig, parseVars, mainVars>>

NextSty == ProcessStyFile

SpecSty == InitSty /\ [][NextSty]_vars

----------------------------------------------------------------------------
(* The CLI pipeline: inputs *)

DefaultWidth  == 4
DefaultHeight == 6

Margins == {-1, 0, 2, 10, 15}

MainUrls ==
    { UrlHttpsAbs \o <<"2", "3", "0", "1", ".", "0", "0", "0", "0", "1", "v", "2">>,
      <<"a", "b", "c">> }

Outputs == {[stem |-> "paper", suffix |-> ""], [stem |-> "paper", suffix |-> ".pdf"]}

ClassLineOpts  ==
    <<"\\documentclass", "[", "11pt", ",", "twocolumn", ",", "a4paper", "]",
      "{", "article", "}">>
ClassLinePlain == <<"\\documentclass", "{", "article", "}">>
CommentLine    == <<"%", " ", "draft">>
CommentedClass == <<"%", " ", "\\documentclass", "{", "old", "}">>
PackageLine    == <<"\\usepackage", "{", "graphicx", "}">>
TitleLine      == <<"\\twocolumn", " ", "[", "\\maketitle", "]">>
BeginLine      == BeginDocument
IndentedBegin  == <<" ">> \o BeginDocument
ImageLine      ==
    <<"\\includegraphics", "[", "width=", "0.8", "\\linewidth", "]", "{", "fig", "}">>
TextLine       == <<"Hello">>
EndLine        == <<"\\end", "{", "document", "}">>

\* contents of .tex files, as written in the archive
Docs ==
    { JoinLines(<<ClassLineOpts, PackageLine, <<>>, BeginLine, TitleLine, ImageLine, EndLine>>),
      JoinLines(<<CommentLine, ClassLinePlain, BeginLine, TextLine, EndLine>>),
      JoinLines(<<ClassLinePlain, BeginLine, TextLine, IndentedBegin, EndLine>>),
      JoinLines(<<ClassLinePlain, TextLine, EndLine>>),
      JoinLines(<<ClassLinePlain, BeginLine, BeginLine, EndLine>>),
      JoinLines(<<CommentedClass, PackageLine, BeginLine, TextLine, EndLine>>),
      JoinLines(<<CommentedClass, CommentLine>>) }

TexStemSeq == <<"main", "intro", "appendix", "notes">>
TexStems   == {TexStemSeq[i] : i \in 1..MaxTexFiles}

TexFilesets ==
    UNION {[{<<st, "tex">> : st \in S} -> Docs] : S \in SUBSET TexStems}

StyFile == <<"\\usepackage", "[", "margin=1in", "]", "{", "geometry", "}", "\n", "\\twocolumn">>
ClsFile == <<"\\@ifpackageloaded", "{", "geometry", "}">>

ExtraFilesets ==
    { EmptyDir,
      (<<"conf", "sty">> :> StyFile) @@ (<<"refs", "bib">> :> <<"@article">>),
      (<<"art", "cls">> :> ClsFile) @@ (<<"main", "bbl">> :> <<"\\bibitem">>) }

Archives == {t @@ e : t \in TexFilesets, e \in ExtraFilesets}

SpawnOutcomes == {"notfound", "nonzero", "ok"}

----------------------------------------------------------------------------
(* The CLI pipeline: actions *)

MarginOkInclusive(m10) == 0 <= m10 /\ m10 <= 10

\* line 363: 0.0 < args.margin < 1.0
MarginOk(m10) == 0 < m10 /\ m10 < 10

IsCaughtNarrow(e) == e \in {"ValueError", "SystemError"}

\* line 373: except (ValueError, SystemError, FileNotFoundError)
IsCaught(e) == e \in {"ValueError", "SystemError", "FileNotFoundError"}

TemporaryDirectoryExitOnSuccess(existed, raised) == existed /\ raised

\* line 311: leaving the with block, normally or by an exception, removes
\* the directory; the value is whether the directory still exists
TemporaryDirectoryExit(existed, raised) == FALSE

\* an exception e raised in stage fn with the working directory holding fs:
\* the with block (when entered) is left, then main catches e or lets it go
Unwind(e, fn, fs) ==
    /\ pc' = "exited"
    /\ exc' = e
    /\ failedIn' = fn
    /\ tmpExists' = TemporaryDirectoryExit(tmpExists, TRUE)
    /\ files' = IF tmpExists' THEN fs ELSE EmptyDir
    /\ exitCode' = 1
    /\ traceback' = ~IsCaught(e)

\* lines 360-368
MainArgs ==
    /\ pc = "main"
    /\ IF ~MarginOk(margin10)
       THEN /\ pc' = "exited"
            /\ exc' = "SystemExit"
            /\ failedIn' = "main"
            /\ exitCode' = 2
            /\ UNCHANGED <<output, traceback>>
       ELSE /\ pc' = "construct"
            /\ output' = IF output.suffix = ""
                         THEN [output EXCEPT !.suffix = ".pdf"] ELSE output
            /\ UNCHANGED <<exc, failedIn, exitCode, traceback>>
    /\ UNCHANGED <<margin10, landscape, arxiv_url, procLog, lastRc, netLog,
                   tmpExists, tmpCreated, files, texfile, src, bibAtCheck,
                   outputWritten, parseVars, styVars>>

\* lines 66-81 given the outcome of the two probes: the exception raised
check_prerequisite(pl, pk, isLandscape) ==
    IF pl = "notfound" THEN "FileNotFoundError"
    ELSE IF pl = "nonzero" THEN "SystemError"
    ELSE IF ~isLandscape THEN "none"
    ELSE IF pk = "notfound" THEN "FileNotFoundError"
    ELSE IF pk = "nonzero" THEN "SystemError"
    ELSE "none"

\* line 371 with lines 61-81
Construct ==
    /\ pc = "construct"
    /\ \E pl \in SpawnOutcomes, pk \in SpawnOutcomes :
          LET probed == pl = "ok" /\ landscape
              e      == check_prerequisite(pl, pk, landscape)
          IN /\ procLog' = procLog \o <<"pdflatex --version">> \o
                           (IF probed THEN <<"pdftk --version">> ELSE <<>>)
             /\ lastRc' = IF probed THEN pk ELSE pl
             /\ IF e = "none"
                THEN /\ pc' = "convert"
                     /\ UNCHANGED <<exc, failedIn, exitCode, traceback,
                                    tmpExists, files>>
                ELSE Unwind(e, "check_prerequisite", files)
    /\ UNCHANGED <<margin10, landscape, arxiv_url, output, netLog, tmpCreated,
                   texfile, src, bibAtCheck, outputWritten, parseVars, styVars>>

\* lines 300-312: entering the with block
ConvertEnter ==
    /\ pc = "convert"
    /\ tmpExists' = TRUE
    /\ tmpCreated' = TRUE
    /\ pc' = "download_source"
    /\ UNCHANGED <<margin10, landscape, arxiv_url, output, procLog, lastRc,
                   netLog, files, texfile, src, bibAtCheck, outputWritten, exc,
                   failedIn, exitCode, traceback, parseVars, styVars>>

TarName == <<"title", "tar.gz">>

\* lines 86-118 once the identifier r is parsed
FetchAndExtract(r) ==
    IF r.raised
    THEN /\ Unwind("ValueError", "download_source", files)
         /\ UNCHANGED netLog
    ELSE \E page \in {"ok", "http_error", "no_title"},
            body \in {"ok", "http_error", "not_a_tar"},
            archive \in Archives :
         IF page = "http_error"
         THEN /\ netLog' = Append(netLog, [kind |-> "abs", id |-> r.id])
              /\ Unwind("HTTPError", "download_source", files)
         ELSE IF page = "no_title"
         THEN /\ netLog' = Append(netLog, [kind |-> "abs", id |-> r.id])
              /\ Unwind("ValueError", "download_source", files)
         ELSE /\ netLog' = netLog \o <<[kind |-> "abs", id |-> r.id],
                                       [kind |-> "e-print", id |-> r.id]>>
              /\ IF body = "http_error"
                 THEN Unwind("HTTPError", "download_source", files)
                 ELSE IF body = "not_a_tar"
                 THEN Unwind("ReadError", "download_source", TarName :> <<"bytes">>)
                 ELSE /\ files' = archive @@ (TarName :> <<"bytes">>)
                      /\ pc' = "sty_files"
                      /\ UNCHANGED <<exc, failedIn, exitCode, traceback,
                                     tmpExists>>

\* lines 83-118
DownloadSource ==
    /\ pc = "download_source"
    /\ FetchAndExtract(parse_arxiv_id(arxiv_url))
    /\ UNCHANGED <<margin10, landscape, arxiv_url, output, procLog, lastRc,
                   tmpCreated, texfile, src, bibAtCheck, outputWritten,
                   parseVars, styVars>>

\* lines 123-179
ProcessStyFiles ==
    /\ pc = "sty_files"
    /\ files' = [n \in DOMAIN files |->
                    IF n[2] \in {"sty", "cls"} THEN PassA(files[n]) ELSE files[n]]
    /\ pc' = "select"
    /\ UNCHANGED <<margin10, landscape, arxiv_url, output, procLog, lastRc,
                   netLog, tmpExists, tmpCreated, texfile, src, bibAtCheck,
                   outputWritten, exc, failedIn, exitCode, traceback,
                   parseVars, styVars>>

\* lines 184-185: "documentclass" in candidate.read_text().split("\n")[0]
FirstLineHasDocumentclass(content) ==
    LET first_line == SplitLines(content)[1]
    IN \E i \in 1..Len(first_line) :
          first_line[i] \in {"\\documentclass", "documentclass"}

\* lines 181-192; glob yields the candidates in an order the file system
\* chooses, so any candidate that passes the test may be the one found first
SelectMain ==
    /\ pc = "select"
    /\ LET candidates == {n \in DOMAIN files :
                             n[2] = "tex" /\ FirstLineHasDocumentclass(files[n])}
       IN IF candidates = {}
          THEN /\ Unwind("FileNotFoundError", "process_tex:select", files)
               /\ UNCHANGED texfile
          ELSE /\ \E c \in candidates : texfile' = c[1]
               /\ pc' = "rewrite"
               /\ UNCHANGED <<exc, failedIn, exitCode, traceback, tmpExists,
                              files>>
    /\ UNCHANGED <<margin10, landscape, arxiv_url, output, procLog, lastRc,
                   netLog, tmpCreated, src, bibAtCheck, outputWritten,
                   parseVars, styVars>>

\* lines 236-237 and 261-263 given the outcome r of the rewriting
BackupAndWrite(r) ==
    /\ src' = r.src
    /\ IF r.exc # "none"
       THEN Unwind(r.exc, "process_tex:rewrite", files)
       ELSE /\ files' = (<<texfile, "tex">> :> JoinLines(r.src)) @@
                        (<<texfile, "tex.bak">> :> files[<<texfile, "tex">>]) @@
                        files
            /\ pc' = "pdflatex1"
            /\ UNCHANGED <<exc, failedIn, exitCode, traceback, tmpExists>>

\* lines 194-263
RewriteMainTex ==
    /\ pc = "rewrite"
    /\ BackupAndWrite(
          RewriteMain(files[<<texfile, "tex">>], landscape,
                      GeometrySettings(DefaultWidth, DefaultHeight, margin10,
                                       landscape)))
    /\ UNCHANGED <<margin10, landscape, arxiv_url, output, procLog, lastRc,
                   netLog, tmpCreated, texfile, bibAtCheck, outputWritten,
                   parseVars, styVars>>

\* what a run of the external compiler may leave behind: the PDF of the
\* document and, in the first run, a file the document itself writes
\* (a .bib database in a filecontents environment)
CompilerOutputs(stem, here) ==
    SUBSET ({<<stem, "pdf">>} \cup
            (IF here = "pdflatex1" THEN {<<"refs", "bib">>} ELSE {}))

AddFiles(fs, names) == [n \in names \ DOMAIN fs |-> <<"bytes">>] @@ fs

\* subprocess.run(pdflatex_cmd, ...) of lines 286, 295 and 298; the return
\* code is not looked at
CompilePass(here, next) ==
    /\ pc = here
    /\ \E rc \in {"ok", "nonzero"}, made \in CompilerOutputs(texfile, here) :
          /\ lastRc' = rc
          /\ files' = AddFiles(files, made)
    /\ procLog' = Append(procLog, "pdflatex")
    /\ pc' = next
    /\ UNCHANGED <<margin10, landscape, arxiv_url, output, netLog, tmpExists,
                   tmpCreated, texfile, src, bibAtCheck, outputWritten, exc,
                   failedIn, exitCode, traceback, parseVars, styVars>>

CompilePass1 == CompilePass("pdflatex1", "bibtex")
CompilePass2 == CompilePass("pdflatex2", "pdflatex3")
CompilePass3 == CompilePass("pdflatex3", "check_pdf")

HasBibliographyBibOnly(fs, stem) ==
    \E n \in DOMAIN fs : n[2] = "bib"

\* line 290: list(work_dir.glob("*.bib")) or bbl_file.exists()
HasBibliography(fs, stem) ==
    \/ \E n \in DOMAIN fs : n[2] = "bib"
    \/ <<stem, "bbl">> \in DOMAIN fs

\* lines 289-292
MaybeBibtex ==
    /\ pc = "bibtex"
    /\ bibAtCheck' = IF HasBibliography(files, texfile) THEN "yes" ELSE "no"
    /\ IF HasBibliography(files, texfile)
       THEN /\ procLog' = Append(procLog, "bibtex")
            /\ \E o \in SpawnOutcomes :
                  /\ lastRc' = o
                  /\ IF o = "notfound"
                     THEN Unwind("FileNotFoundError", "_compile_latex", files)
                     ELSE /\ \E made \in SUBSET {<<texfile, "bbl">>} :
                                files' = AddFiles(files, made)
                          /\ pc' = "pdflatex2"
                          /\ UNCHANGED <<exc, failedIn, exitCode, traceback,
                                         tmpExists>>
       ELSE /\ pc' = "pdflatex2"
            /\ UNCHANGED <<procLog, lastRc, files, exc, failedIn, exitCode,
                           traceback, tmpExists>>
    /\ UNCHANGED <<margin10, landscape, arxiv_url, output, netLog, tmpCreated,
                   texfile, src, outputWritten, parseVars, styVars>>

\* lines 268-272
CheckPdf ==
    /\ pc = "check_pdf"
    /\ IF <<texfile, "pdf">> \notin DOMAIN files
       THEN Unwind("FileNotFoundError", "process_tex:pdf", files)
       ELSE /\ pc' = "copy"
            /\ UNCHANGED <<exc, failedIn, exitCode, traceback, tmpExists, files>>
    /\ UNCHANGED <<margin10, landscape, arxiv_url, output, procLog, lastRc,
                   netLog, tmpCreated, texfile, src, bibAtCheck, outputWritten,
                   parseVars, styVars>>

\* lines 317-320 and the return of main: shutil.copy writes the output or
\* raises (no such directory, no permission), then the with block is left
CopyOutput ==
    /\ pc = "copy"
    /\ \E o \in {"ok", "FileNotFoundError", "PermissionError"} :
          IF o = "ok"
          THEN /\ outputWritten' = TRUE
               /\ tmpExists' = TemporaryDirectoryExit(tmpExists, FALSE)
               /\ files' = IF tmpExists' THEN files ELSE EmptyDir
               /\ pc' = "exited"
               /\ exitCode' = 0
               /\ UNCHANGED <<exc, failedIn, traceback>>
          ELSE /\ Unwind(o, "shutil.copy", files)
               /\ UNCHANGED outputWritten
    /\ UNCHANGED <<margin10, landscape, arxiv_url, output, procLog, lastRc,
                   netLog, tmpCreated, texfile, src, bibAtCheck, parseVars,
                   styVars>>

Init ==
    /\ pc = "main"
    /\ margin10 \in Margins
    /\ landscape \in BOOLEAN
    /\ arxiv_url \in MainUrls
    /\ output \in Outputs
    /\ procLog = <<>>
    /\ lastRc = "none"
    /\ netLog = <<>>
    /\ tmpExists = FALSE
    /\ tmpCreated = FALSE
    /\ files = EmptyDir
    /\ texfile = ""
    /\ src = <<>>
    /\ bibAtCheck = "unset"
    /\ outputWritten = FALSE
    /\ exc = "none"
    /\ failedIn = "none"
    /\ exitCode = -1
    /\ traceback = FALSE
    /\ ParseIdle
    /\ StyIdle

Next ==
    \/ MainArgs
    \/ Construct
    \/ ConvertEnter
    \/ DownloadSource
    \/ ProcessStyFiles
    \/ SelectMain
    \/ RewriteMainTex
    \/ CompilePass1
    \/ MaybeBibtex
    \/ CompilePass2
    \/ CompilePass3
    \/ CheckPdf
    \/ CopyOutput

Spec == Init /\ [][Next]_vars

----------------------------------------------------------------------------
(* Properties *)

Range(f) == {f[i] : i \in DOMAIN f}

Rewritten == {"pdflatex1", "bibtex", "pdflatex2", "pdflatex3", "check_pdf", "copy"}

\* C1: when convert has returned or raised, whatever stage ended it, the
\* temporary directory of the run no longer exists; a run that succeeded has
\* written the output path.
C1_TempDirRemoved ==
    /\ pc = "exited" => ~tmpExists /\ files = EmptyDir
    /\ pc = "exited" /\ exc = "none" => outputWritten /\ tmpCreated

C1_Witness ==
    /\ pc = "exited"
    /\ tmpCreated
    /\ ~tmpExists
    /\ failedIn = "_compile_latex"

\* number of \begin{document} markers anywhere in the lines
MarkerCount(lines) ==
    Cardinality({p \in UNION {{<<i, j>> : j \in 1..Len(lines[i])} : i \in 1..Len(lines)} :
                    StartsWithAt(lines[p[1]], p[2], BeginDocument)})

\* C2: when the rewritten main document does not hold exactly one
\* \begin{document} marker across the whole file, process_tex fails with
\* ValueError: no compiler run, no backup or overwrite, nothing copied.
C2_StructureError ==
    (src # <<>> /\ MarkerCount(src) # 1) =>
        /\ pc = "exited"
        /\ exc = "ValueError"
        /\ failedIn = "process_tex:rewrite"
        /\ "pdflatex" \notin Range(procLog)
        /\ ~outputWritten

IsIdentifier(t) ==
    \E n \in {4, 5}, v \in {0, 1, 2} :
        /\ Len(t) = 5 + n + (IF v = 0 THEN 0 ELSE 1 + v)
        /\ \A k \in 1..4 : IsDigit(t[k])
        /\ t[5] = "."
        /\ \A k \in 6..(5 + n) : IsDigit(t[k])
        /\ v > 0 => t[6 + n] = "v" /\ \A k \in (7 + n)..(6 + n + v) : IsDigit(t[k])

\* every URL variant: with or without scheme, with or without www.
AllUrlPrefixes ==
    {scheme \o www \o LitArxivOrg \o path \o <<"/">> :
        scheme \in {<<>>, LitHttp \o LitSlashes, LitHttp \o <<"s">> \o LitSlashes},
        www \in {<<>>, LitWww},
        path \in {LitAbs, LitPdf, LitEprint}}

\* u is an identifier, or a URL variant wrapping one (blanks around it aside)
WellFormedInput(u) ==
    \E pre \in AllUrlPrefixes \cup {<<>>} :
        /\ StartsWithAt(Strip(u), 1, pre)
        /\ IsIdentifier(SubSeq(Strip(u), Len(pre) + 1, Len(Strip(u))))

\* C4 as claimed: every input that is neither an identifier nor a URL
\* variant wrapping one is rejected; no part of an invalid input is returned.
C4_RejectsMalformed ==
    parse_result.state = "returned" => WellFormedInput(url_or_id)

\* C4 as amended: parse_arxiv_id raises ValueError exactly for the inputs
\* that contain no substring of the identifier form; for every other input
\* it returns a substring of the input that has the identifier form.
C4_RejectsIffNoIdentifier ==
    parse_result.state \in {"returned", "ValueError"} =>
        /\ parse_result.state = "ValueError" <=>
              ~\E i \in 1..Len(url_or_id), j \in 1..Len(url_or_id) :
                  IsIdentifier(SubSeq(url_or_id, i, j))
        /\ parse_result.state = "returned" =>
              /\ IsIdentifier(parse_result.id)
              /\ IsSubstring(parse_result.id, url_or_id)

C4_Witness ==
    /\ parse_result.state = "returned"
    /\ ~WellFormedInput(url_or_id)
    /\ parse_result.id # Strip(url_or_id)

\* C5: a margin that is not strictly between 0 and 1 is rejected as a usage
\* error before any network request, process spawn, temporary directory or
\* file write.
C5_MarginRejectedFirst ==
    (margin10 <= 0 \/ margin10 >= 10) =>
        /\ pc \in {"main", "exited"}
        /\ pc = "exited" => exitCode = 2 /\ exc = "SystemExit"
        /\ netLog = <<>>
        /\ procLog = <<>>
        /\ ~tmpCreated
        /\ ~tmpExists
        /\ files = EmptyDir
        /\ ~outputWritten

C5_Witness ==
    /\ pc = "exited"
    /\ margin10 = 10
    /\ exitCode = 2

\* C6: when a probed prerequisite binary is not resolvable, construction
\* fails with SystemError (MissingDependency) before any network request,
\* temporary directory or compile; without landscape mode the
\* PDF-manipulation binary is never invoked.
C6_MissingDependency ==
    /\ (failedIn = "check_prerequisite" \/ (pc = "convert" /\ lastRc # "ok")) =>
          /\ pc = "exited"
          /\ exc = "SystemError"
          /\ netLog = <<>>
          /\ ~tmpCreated
          /\ "pdflatex" \notin Range(procLog)
    /\ ~landscape => "pdftk --version" \notin Range(procLog)

\* the line of the rewritten document that starts with the marker
MarkerLine == CHOOSE i \in 1..Len(src) : StartsWithAt(src[i], 1, BeginDocument)

ExpectedGeometryLine ==
    <<"\\geometry", "{",
      "paperwidth=" \o (IF landscape THEN "6in" ELSE "4in"), ",",
      "paperheight=" \o (IF landscape THEN "4in" ELSE "6in"), ",",
      "margin=0." \o ToString(margin10) \o "in",
      "}", "\n">>

\* C7 as claimed: before the marker come, in this order, the landscape
\* import (landscape only), the serif font directive, the empty page style,
\* the conditional geometry load, the geometry settings.
C7_ClaimedOrder ==
    pc \in Rewritten =>
        /\ MarkerLine > 4
        /\ src[MarkerLine - 4] = TimesLine
        /\ src[MarkerLine - 3] = PagestyleLine
        /\ src[MarkerLine - 2] = IfLoadedLine
        /\ src[MarkerLine - 1] = ExpectedGeometryLine
        /\ landscape => MarkerLine > 5 /\ src[MarkerLine - 5] = LscapeLine

\* C7 as amended: before the marker come, in this order, the landscape
\* import (landscape only), the empty page style, the serif font directive,
\* the conditional geometry load, the geometry settings; the file written is
\* these lines joined.
C7_InsertedOrder ==
    pc \in Rewritten =>
        /\ MarkerLine > 4
        /\ src[MarkerLine - 4] = PagestyleLine
        /\ src[MarkerLine - 3] = TimesLine
        /\ src[MarkerLine - 2] = IfLoadedLine
        /\ src[MarkerLine - 1] = ExpectedGeometryLine
        /\ landscape => MarkerLine > 5 /\ src[MarkerLine - 5] = LscapeLine
        /\ ~landscape => \A i \in 1..Len(src) : src[i] # LscapeLine
        /\ files[<<texfile, "tex">>] = JoinLines(src)

C7_Witness ==
    /\ pc = "pdflatex1"
    /\ landscape
    /\ src[MarkerLine - 5] = LscapeLine
    /\ src[MarkerLine - 4] = PagestyleLine

\* C8 as claimed: applying Pass A to its own result changes nothing.
C8_Idempotent ==
    sty_passes = 2 => sty_content = sty_prev

\* no lexeme of the file spells geometry or is the two-column switch
NoGeometryUsage(s) ==
    \A i \in 1..Len(s) :
        s[i] \notin {"geometry", "Geometry", "newgeometry", "\\geometry",
                     "\\newgeometry", "\\twocolumn"}

\* C8 as amended: Pass A leaves unchanged, at every application and hence
\* idempotently, every style file that has no geometry usage and no
\* two-column switch at all.
C8_UnchangedWithoutGeometry ==
    (sty_passes >= 1 /\ NoGeometryUsage(sty_orig)) =>
        sty_content = sty_orig /\ sty_prev = sty_orig

C8_Witness ==
    /\ sty_passes = 2
    /\ NoGeometryUsage(sty_orig)
    /\ "\\PackageError" \in Range(sty_orig)
    /\ "\\usepackage" \in Range(sty_orig)

CompileRuns == SelectSeq(procLog, LAMBDA c : c \in {"pdflatex", "bibtex"})

\* C9: whatever the stages return, by the time the PDF is looked for the
\* compiler has run exactly three times, and the bibliography processor once
\* between the first and the second run exactly when a .bib file or the
\* document's .bbl file existed after the first run; a missing PDF then
\* fails with FileNotFoundError and nothing is copied.
C9_StageSequence ==
    /\ []((pc \in {"check_pdf", "copy"}
             \/ failedIn \in {"process_tex:pdf", "shutil.copy"} \/ outputWritten)
          => /\ bibAtCheck \in {"yes", "no"}
             /\ CompileRuns = IF bibAtCheck = "yes"
                              THEN <<"pdflatex", "bibtex", "pdflatex", "pdflatex">>
                              ELSE <<"pdflatex", "pdflatex", "pdflatex">>)
    /\ [](pc \in {"main", "construct", "convert", "download_source",
                  "sty_files", "select", "rewrite", "pdflatex1"}
          => CompileRuns = <<>> /\ ~outputWritten)
    /\ [][pc = "bibtex" =>
            /\ CompileRuns = <<"pdflatex">>
            /\ bibAtCheck' = "yes" <=>
                  \/ \E n \in DOMAIN files : n[2] = "bib"
                  \/ <<texfile, "bbl">> \in DOMAIN files
            /\ bibAtCheck' = "yes" <=> CompileRuns' = <<"pdflatex", "bibtex">>]_vars
    /\ [][(pc = "check_pdf" /\ <<texfile, "pdf">> \notin DOMAIN files) =>
            /\ pc' = "exited"
            /\ exc' = "FileNotFoundError"
            /\ ~outputWritten']_vars
    /\ [](failedIn = "process_tex:pdf" => ~outputWritten)

C9_Witness ==
    /\ pc = "check_pdf"
    /\ bibAtCheck = "yes"
    /\ lastRc = "nonzero"
    /\ CompileRuns = <<"pdflatex", "bibtex", "pdflatex", "pdflatex">>

\* the first line that is neither blank nor a comment holds \documentclass
FirstNonTrivialHasDocumentclass(content) ==
    LET ls == FilterLines(SplitLines(content))
    IN ls # <<>> /\ "\\documentclass" \in Range(ls[1])

\* C10: the file selected as main document has the document-class
\* declaration on its first non-trivial line, and a file whose declaration
\* is preceded only by comment or blank lines is still selected.
C10_SelectsByFirstNonTrivialLine ==
    [][pc = "select" =>
        LET good == {n \in DOMAIN files :
                        n[2] = "tex" /\ FirstNonTrivialHasDocumentclass(files[n])}
        IN /\ good # {} => pc' = "rewrite"
           /\ pc' = "rewrite" => <<texfile', "tex">> \in good]_vars

============================================================================
